---- MODULE Spec2Model ----
(***************************************************************************)
(* Model of supercycler.py: the schedule resolution performed by           *)
(* automatic() -- calcular_dia_de_flora, calcular_ciclo_on_off,            *)
(* calcular_proximo_cambio, read_configuration and the device command --   *)
(* and the loop of supercycle_loop().                                      *)
(*                                                                         *)
(* Time is counted in minutes since 00:00 of date 0.  A date string        *)
(* DD/MM/YYYY is represented by its day number, an hour text by its        *)
(* sequence of decimal digits ("8" is <<8>>, "08" is <<0, 8>>).            *)
(***************************************************************************)
EXTENDS Integers, Sequences, FiniteSets, TLC

\* ------------------------------------------------------------------ bounds
MaxEvents == 4
MaxDay == 1
MaxTicks == 1
MaxCycles == 2
ProximoEvents == 3
InvalidoEvents == 3
CicloEvents == 3
ParEvents == 2

\* ------------------------------------------------------- program constants
HoursPerDay == 24
SecondsPerHour == 3600
SleepSeconds == 600
DaysPerWeek == 7

MinutesPerHour == SecondsPerHour \div 60
MinutesPerDay == HoursPerDay * MinutesPerHour

None == "None"
States == {"ON", "OFF"}

\* ------------------------------------------------------------ conversions
\* A character of an hour text is a digit 0..9 or NoDigit, any other character
NoDigit == 9 + 1

\* event.find(fld) is not None: the record has the field
has(e, fld) == fld \in DOMAIN e

\* int(text) does not raise: the text is a non-empty run of digits
int_ok(s) == Len(s) > 0 /\ \A i \in 1..Len(s) : s[i] \in 0..9

RECURSIVE DigitsToInt(_)
\* int(text) for a text of decimal digits
DigitsToInt(s) ==
    IF Len(s) = 0 THEN 0
    ELSE 10 * DigitsToInt(SubSeq(s, 1, Len(s) - 1)) + s[Len(s)]

\* str.zfill(2): pad on the left with zeros up to two characters
zfill2(s) ==
    IF Len(s) = 0 THEN <<0, 0>>
    ELSE IF Len(s) = 1 THEN <<0>> \o s
    ELSE s

\* strftime("%H"): the hour of day as two digits
strftime_H(t) ==
    LET h == (t % MinutesPerDay) \div MinutesPerHour
    IN  <<h \div 10, h % 10>>

\* strftime("%d/%m/%Y"): the date of an instant
strftime_date(t) == t \div MinutesPerDay

\* strftime("%H:%M"): hour and minute of an instant
strftime_HM(t) ==
    <<(t % MinutesPerDay) \div MinutesPerHour, t % MinutesPerHour>>

\* lines 28-33: the three fields are there and
\* strptime(f"{date} {hour}", "%d/%m/%Y %H") accepts a two-digit hour 00..23
strptime_ok(e) ==
    /\ has(e, "date") /\ has(e, "hour") /\ has(e, "state")
    /\ LET h == zfill2(e.hour)
       IN  Len(h) = 2 /\ int_ok(h) /\ DigitsToInt(h) < HoursPerDay

\* the datetime of an event as calcular_proximo_cambio builds it
event_datetime(e) ==
    e.date * MinutesPerDay + DigitsToInt(zfill2(e.hour)) * MinutesPerHour

\* round(x, 2) of a number of minutes expressed in hours, in hundredths
round2_hours(m) == (10 * m + 3) \div 6

\* ------------------------------------------------ calcular_proximo_cambio
ErrorResult(ea) ==
    [error |-> TRUE, estado_actual |-> ea, fecha |-> 0, hora |-> <<0, 0>>,
     estado |-> None, faltan_horas |-> 0]

\* the start of the interval is not tested
en_intervalo_sin_inicio(eventos, i, t) == t < eventos[i + 1][1]

\* line 42: eventos[i][0] <= now < eventos[i + 1][0]
en_intervalo(eventos, i, t) ==
    eventos[i][1] <= t /\ t < eventos[i + 1][1]

\* the first later event is taken, whatever its state
es_proximo_cualquiera(evento, t, estado_actual) ==
    evento[1] > t

\* line 51: evento[0] > now and evento[1] != estado_actual
es_proximo(evento, t, estado_actual) ==
    evento[1] > t /\ evento[2] # estado_actual

calcular_proximo_cambio(f, t) ==
    IF \E k \in 1..Len(f) : ~strptime_ok(f[k])
    THEN ErrorResult(None)
    ELSE
      LET eventos == [k \in 1..Len(f) |-> <<event_datetime(f[k]), f[k].state>>]
          hits == {i \in 1..(Len(f) - 1) : en_intervalo(eventos, i, t)}
          estado_actual ==
              IF hits = {} THEN None
              ELSE eventos[CHOOSE i \in hits : \A j \in hits : i <= j][2]
          later == {k \in 1..Len(f) : es_proximo(eventos[k], t, estado_actual)}
      IN  IF estado_actual = None THEN ErrorResult(None)
          ELSE IF later = {} THEN ErrorResult(estado_actual)
          ELSE
            LET k == CHOOSE k \in later : \A j \in later : k <= j
                evento == eventos[k]
            IN  [error |-> FALSE,
                 estado_actual |-> estado_actual,
                 fecha |-> strftime_date(evento[1]),
                 hora |-> strftime_HM(evento[1]),
                 estado |-> evento[2],
                 faltan_horas |-> round2_hours(evento[1] - t)]

\* -------------------------------------------------- calcular_ciclo_on_off
\* the plain difference of the two hours, without the day boundary
ciclo_diff_sin_vuelta(hour, last_hour) == hour - last_hour

\* line 95: the distance in hours between two changes of state
ciclo_diff(hour, last_hour) ==
    IF hour >= last_hour THEN hour - last_hour
    ELSE hour + HoursPerDay - last_hour

RECURSIVE ciclo_loop_desde_evento(_, _, _)
\* the loop with last_hour taken from every event, changed state or not
ciclo_loop_desde_evento(f, k, acc) ==
    IF k > Len(f) THEN acc
    ELSE
      LET hour == DigitsToInt(f[k].hour)
          state == f[k].state
      IN  IF acc.last_state = None
          THEN ciclo_loop_desde_evento(f, k + 1,
                 [acc EXCEPT !.last_state = state, !.last_hour = hour])
          ELSE IF state # acc.last_state
          THEN ciclo_loop_desde_evento(f, k + 1,
                 [cambios |-> Append(acc.cambios,
                                     ciclo_diff(hour, acc.last_hour)),
                  last_state |-> state,
                  last_hour |-> hour])
          ELSE ciclo_loop_desde_evento(f, k + 1,
                 [acc EXCEPT !.last_hour = hour])

RECURSIVE ciclo_loop(_, _, _)
\* the loop over the events: acc = [cambios, last_state, last_hour]
ciclo_loop(f, k, acc) ==
    IF k > Len(f) THEN acc
    ELSE
      LET hour == DigitsToInt(f[k].hour)
          state == f[k].state
      IN  IF acc.last_state = None
          THEN ciclo_loop(f, k + 1,
                 [acc EXCEPT !.last_state = state, !.last_hour = hour])
          ELSE IF state # acc.last_state
          THEN LET diff == ciclo_diff(hour, acc.last_hour)
               IN  ciclo_loop(f, k + 1,
                     [cambios |-> Append(acc.cambios, diff),
                      last_state |-> state,
                      last_hour |-> hour])
          ELSE ciclo_loop(f, k + 1, acc)

ciclo_cambios(f) ==
    ciclo_loop(f, 1, [cambios |-> <<>>, last_state |-> None, last_hour |-> 0])

RECURSIVE SumSeq(_)
SumSeq(s) == IF Len(s) = 0 THEN 0 ELSE s[1] + SumSeq(Tail(s))

\* s[::2] (from = 1) and s[1::2] (from = 2)
Slice2(s, from) ==
    LET idx == {i \in 1..Len(s) : i >= from /\ (i - from) % 2 = 0}
    IN  [j \in 1..Cardinality(idx) |-> s[from + 2 * (j - 1)]]

\* int(sum(xs) / len(xs)) if xs else 0
promedio(xs) == IF Len(xs) = 0 THEN 0 ELSE SumSeq(xs) \div Len(xs)

\* lines 84-85 raise on no event: every hour is an integer text and every
\* state is there
ciclo_legible(f) ==
    \A k \in 1..Len(f) :
        has(f[k], "hour") /\ int_ok(f[k].hour) /\ has(f[k], "state")

\* cambios when the loop of lines 83-98 ends
cambios_de(f) == IF ciclo_legible(f) THEN ciclo_cambios(f).cambios ELSE <<>>

\* the check is for no change at all
insuficiente_sin_cambios(c) == Len(c) < 1

\* line 101: len(cambios) < 2
insuficiente(c) == Len(c) < 2

calcular_ciclo_on_off(f) ==
    IF ~ciclo_legible(f) THEN [ok |-> FALSE, on |-> 0, off |-> 0]
    ELSE
      LET c == ciclo_cambios(f).cambios
      IN  IF insuficiente(c)
          THEN [ok |-> FALSE, on |-> 0, off |-> 0]
          ELSE [ok |-> TRUE,
                on |-> promedio(Slice2(c, 1)),
                off |-> promedio(Slice2(c, 2))]

\* -------------------------------------------------- calcular_dia_de_flora
\* the difference in days truncated towards zero
dias_entre_truncado(start_date, t) ==
    LET d == t - start_date * MinutesPerDay
    IN  IF d >= 0 THEN d \div MinutesPerDay ELSE -((-d) \div MinutesPerDay)

\* (today - start_date).days, start_date being the midnight of the date
dias_entre(start_date, t) == (t - start_date * MinutesPerDay) \div MinutesPerDay

calcular_dia_de_flora(f, t) ==
    IF Len(f) = 0 \/ ~has(f[1], "date") THEN [ok |-> FALSE, dias |-> 0]
    ELSE [ok |-> TRUE, dias |-> dias_entre(f[1].date, t)]

\* ----------------------------------------------------- read_configuration
RECURSIVE config_loop(_, _, _)
\* configuration[date][hour] = state, a later event overwriting an earlier;
\* a missing field raises, and the configuration read so far is returned
config_loop(f, k, cfg) ==
    IF k > Len(f) THEN cfg
    ELSE IF ~(has(f[k], "date") /\ has(f[k], "hour") /\ has(f[k], "state"))
    THEN cfg
    ELSE
      LET key == <<f[k].date, f[k].hour>>
      IN  config_loop(f, k + 1,
            [x \in (DOMAIN cfg) \cup {key} |->
                IF x = key THEN f[k].state ELSE cfg[x]])

read_configuration(f) == config_loop(f, 1, <<>>)

\* config.get(date_key, {}).get(hour_key, None)
config_get(cfg, date_key, hour_key) ==
    IF <<date_key, hour_key>> \in DOMAIN cfg
    THEN cfg[<<date_key, hour_key>>]
    ELSE None

\* ------------------------------------------------------ send_command_tasmota
\* the command is posted twice
send_command_tasmota_dos_veces(cmds, status) ==
    Append(Append(cmds, status), status)

\* the payload {"status": state} posted to the device
send_command_tasmota(cmds, status) == Append(cmds, status)

\* ------------------------------------------------------------------ inputs
HourTexts == {<<0, 8>>, <<2, 0>>}
Events == [date : 0..MaxDay, hour : HourTexts, state : States]

\* for the resolution alone, an hour may also be written with one digit
ProximoEventSet ==
    [date : 0..MaxDay, hour : HourTexts \cup {<<8>>}, state : States]

\* the event list is given in chronological order
IsOrdered(f) ==
    \A i \in 1..(Len(f) - 1) : event_datetime(f[i]) <= event_datetime(f[i + 1])

StrictlyOrdered(f) ==
    \A i \in 1..(Len(f) - 1) : event_datetime(f[i]) < event_datetime(f[i + 1])

RECURSIVE OrderedFiles(_, _, _)
\* the chronologically ordered lists of n events of E; with strict, no two
\* events share an instant
OrderedFiles(E, n, strict) ==
    IF n = 0 THEN {<<>>}
    ELSE {Append(x[1], x[2]) :
            x \in {y \in OrderedFiles(E, n - 1, strict) \X E :
                      \/ Len(y[1]) = 0
                      \/ event_datetime(y[1][Len(y[1])]) < event_datetime(y[2])
                      \/ /\ ~strict
                         /\ event_datetime(y[1][Len(y[1])]) = event_datetime(y[2])}}

\* well-formed event lists: no two events share an instant
Files == UNION {OrderedFiles(Events, n, TRUE) : n \in 0..MaxEvents}

\* event lists for the resolution alone: events may share an instant
ProximoFiles ==
    UNION {OrderedFiles(ProximoEventSet, n, FALSE) : n \in 0..ProximoEvents}

\* the invalid records that differ from the event e in one field: a field
\* is missing, the hour is not in 0..23 or not a number, the state is not
\* ON or OFF
Invalidos(e) ==
    {[hour |-> e.hour, state |-> e.state],
     [date |-> e.date, state |-> e.state],
     [date |-> e.date, hour |-> e.hour],
     [e EXCEPT !.hour = <<2, 5>>],
     [e EXCEPT !.hour = <<NoDigit>>],
     [e EXCEPT !.state = "XX"]}

\* event lists with at most one invalid record
InvalidoFiles ==
    LET base == UNION {OrderedFiles(Events, n, TRUE) : n \in 0..InvalidoEvents}
    IN  base \cup UNION {{[f EXCEPT ![p] = v] : v \in Invalidos(f[p])} :
                            <<f, p>> \in {x \in base \X (1..InvalidoEvents) :
                                             x[2] <= Len(x[1])}}

\* wall-clock readings at which a run starts
ClockTimes == {<<0, 0>>, <<7, 50>>, <<8, 0>>, <<14, 0>>, <<19, 50>>, <<20, 0>>}
Clocks == {d * MinutesPerDay + hm[1] * MinutesPerHour + hm[2] :
              d \in 0..(MaxDay + 1), hm \in ClockTimes}

\* how far the wall clock may advance between two steps of a cycle
TickDeltas == {10}

\* event lists for the cycle analysis alone, where only hour and state count
CicloHours == {0, 1, 3, 12, 23}
CicloFiles ==
    UNION {[1..n -> [date : {0},
                     hour : {strftime_H(h * MinutesPerHour) : h \in CicloHours},
                     state : States]] : n \in 0..CicloEvents}

\* event lists for the distance between two changes: every hour of the day
ParHours == 0..(HoursPerDay - 1)
ParFiles ==
    UNION {[1..n -> [date : {0},
                     hour : {strftime_H(h * MinutesPerHour) : h \in ParHours},
                     state : States]] : n \in 0..ParEvents}

\* ------------------------------------------------------------------- state
VARIABLES
    file,            \* the events of the XML file, in file order
    mode,            \* "onetime" (-o) or "supercycle" (-s)
    clock,           \* the wall clock, in minutes
    pc,              \* position of the process
    exc,             \* the exception that ended the process, or None
    ticks,           \* clock advances during the current cycle
    cycles,          \* completed calls of automatic()
    now,             \* automatic(): now (lines 241 and 283)
    today,           \* calcular_dia_de_flora(): today (line 142)
    now_proximo,     \* calcular_proximo_cambio(): now (line 37)
    dia_de_flora,    \* result of calcular_dia_de_flora
    cambios,         \* calcular_ciclo_on_off(): cambios
    ciclo,           \* result of calcular_ciclo_on_off
    proximo_cambio,  \* result of calcular_proximo_cambio
    report,          \* the values printed at line 274
    state,           \* automatic(): state looked up for the command
    sent             \* statuses posted to the device in the current cycle

vars == <<file, mode, clock, pc, exc, ticks, cycles, now, today, now_proximo,
          dia_de_flora, cambios, ciclo, proximo_cambio, report, state, sent>>

NoFlora == [ok |-> FALSE, dias |-> 0]
NoCiclo == [ok |-> FALSE, on |-> 0, off |-> 0]
NoReport == [printed |-> FALSE, dia |-> 0, week |-> 0, ciclo_on |-> 0,
             ciclo_off |-> 0, diatotal |-> 0, estado |-> None, faltan |-> 0,
             fecha |-> 0, hora |-> <<0, 0>>]

Locals0 ==
    /\ ticks = 0
    /\ now = 0
    /\ today = 0
    /\ now_proximo = 0
    /\ dia_de_flora = NoFlora
    /\ cambios = <<>>
    /\ ciclo = NoCiclo
    /\ proximo_cambio = ErrorResult(None)
    /\ report = NoReport
    /\ state = None
    /\ sent = <<>>

Init ==
    /\ file \in Files
    /\ mode \in {"onetime", "supercycle"}
    /\ clock \in Clocks
    /\ pc = "start"
    /\ exc = None
    /\ cycles = 0
    /\ Locals0

\* int(x / d) for d > 0: truncation towards zero
TruncDiv(x, d) == IF x >= 0 THEN x \div d ELSE -((-x) \div d)

\* ----------------------------------------------------------------- actions
\* automatic(), line 241: now = datetime.now(), and the locals of a new call
automatic_start ==
    /\ pc = "start"
    /\ now' = clock
    /\ ticks' = 0
    /\ today' = 0
    /\ now_proximo' = 0
    /\ dia_de_flora' = NoFlora
    /\ cambios' = <<>>
    /\ ciclo' = NoCiclo
    /\ proximo_cambio' = ErrorResult(None)
    /\ report' = NoReport
    /\ state' = None
    /\ sent' = <<>>
    /\ pc' = "flora"
    /\ UNCHANGED <<file, mode, clock, exc, cycles>>

\* line 254: dia_de_flora = calcular_dia_de_flora(file)
automatic_flora ==
    /\ pc = "flora"
    /\ today' = clock
    /\ dia_de_flora' = calcular_dia_de_flora(file, clock)
    /\ pc' = "ciclo"
    /\ UNCHANGED <<file, mode, clock, exc, ticks, cycles, now, now_proximo,
                   cambios, ciclo, proximo_cambio, report, state, sent>>

\* lines 255-257: ciclo_on, ciclo_off = calcular_ciclo_on_off(file) raises
\* ValueError when the result is the message string; dia_de_flora / 7 raises
\* TypeError when dia_de_flora is None
automatic_ciclo ==
    /\ pc = "ciclo"
    /\ LET r == calcular_ciclo_on_off(file)
       IN  /\ cambios' = cambios_de(file)
           /\ ciclo' = r
           /\ IF ~r.ok THEN pc' = "crashed" /\ exc' = "ValueError"
              ELSE IF ~dia_de_flora.ok THEN pc' = "crashed" /\ exc' = "TypeError"
              ELSE pc' = "proximo" /\ exc' = exc
    /\ UNCHANGED <<file, mode, clock, ticks, cycles, now, today, now_proximo,
                   dia_de_flora, proximo_cambio, report, state, sent>>

\* lines 260-278: proximo_cambio["fecha"] raises KeyError on an error result;
\* otherwise the report is printed
automatic_proximo ==
    /\ pc = "proximo"
    /\ now_proximo' = clock
    /\ LET r == calcular_proximo_cambio(file, clock)
       IN  /\ proximo_cambio' = r
           /\ IF r.error
              THEN pc' = "crashed" /\ exc' = "KeyError" /\ report' = report
              ELSE /\ pc' = "command"
                   /\ exc' = exc
                   /\ report' =
                        [printed |-> TRUE,
                         dia |-> dia_de_flora.dias,
                         week |-> TruncDiv(dia_de_flora.dias, DaysPerWeek),
                         ciclo_on |-> ciclo.on,
                         ciclo_off |-> ciclo.off,
                         diatotal |-> ciclo.on + ciclo.off,
                         estado |-> r.estado,
                         faltan |-> r.faltan_horas \div 100,
                         fecha |-> r.fecha,
                         hora |-> r.hora]
    /\ UNCHANGED <<file, mode, clock, ticks, cycles, now, today, dia_de_flora,
                   cambios, ciclo, state, sent>>

\* lines 281-300: read the configuration, look the state up under the current
\* date and hour, and send the command
automatic_command ==
    /\ pc = "command"
    /\ now' = clock
    /\ LET config == read_configuration(file)
           date_key == strftime_date(clock)
           hour_key == strftime_H(clock)
           st == config_get(config, date_key, hour_key)
       IN  /\ state' = st
           /\ sent' = IF st = "ON" THEN send_command_tasmota(sent, 1)
                      ELSE IF st = "OFF" THEN send_command_tasmota(sent, 0)
                      ELSE sent
    /\ pc' = IF mode = "supercycle" THEN "sleep" ELSE "done"
    /\ cycles' = cycles + 1
    /\ UNCHANGED <<file, mode, clock, exc, ticks, today, now_proximo,
                   dia_de_flora, cambios, ciclo, proximo_cambio, report>>

\* supercycle_loop(), lines 313-315: time.sleep(600), then the next call
supercycle_loop ==
    /\ pc = "sleep"
    /\ cycles < MaxCycles
    /\ clock' = clock + SleepSeconds \div 60
    /\ pc' = "start"
    /\ UNCHANGED <<file, mode, exc, ticks, cycles, now, today, now_proximo,
                   dia_de_flora, cambios, ciclo, proximo_cambio, report,
                   state, sent>>

\* the wall clock advances while a cycle is running
Tick ==
    /\ pc \in {"flora", "ciclo", "proximo", "command"}
    /\ ticks < MaxTicks
    /\ \E d \in TickDeltas : clock' = clock + d
    /\ ticks' = ticks + 1
    /\ UNCHANGED <<file, mode, pc, exc, cycles, now, today, now_proximo,
                   dia_de_flora, cambios, ciclo, proximo_cambio, report,
                   state, sent>>

Next ==
    \/ automatic_start
    \/ automatic_flora
    \/ automatic_ciclo
    \/ automatic_proximo
    \/ automatic_command
    \/ supercycle_loop
    \/ Tick

Spec == Init /\ [][Next]_vars

\* the cycles on event lists whose hours are written with one or two digits
\* and whose events may share an instant
InitTextos ==
    /\ file \in ProximoFiles
    /\ mode \in {"onetime", "supercycle"}
    /\ clock \in Clocks
    /\ pc = "start"
    /\ exc = None
    /\ cycles = 0
    /\ Locals0

SpecTextos == InitTextos /\ [][Next]_vars

\* the runs that start on the hour of an event, where the lookup of
\* automatic() can find a state
InvalidoClocks ==
    {c \in Clocks : \E h \in HourTexts :
        c % MinutesPerDay = DigitsToInt(h) * MinutesPerHour}

\* the cycles on event lists that may hold an invalid record
InitInvalido ==
    /\ file \in InvalidoFiles
    /\ mode \in {"onetime", "supercycle"}
    /\ clock \in InvalidoClocks
    /\ pc = "start"
    /\ exc = None
    /\ cycles = 0
    /\ Locals0

SpecInvalido == InitInvalido /\ [][Next]_vars

\* ------------------------------------- the cycle analysis on its own inputs
InitCiclo ==
    /\ file \in CicloFiles
    /\ mode = "onetime"
    /\ clock = 0
    /\ pc = "analyze"
    /\ exc = None
    /\ cycles = 0
    /\ Locals0

\* one call of calcular_ciclo_on_off(file)
analyze ==
    /\ pc = "analyze"
    /\ cambios' = cambios_de(file)
    /\ ciclo' = calcular_ciclo_on_off(file)
    /\ pc' = "analyzed"
    /\ UNCHANGED <<file, mode, clock, exc, ticks, cycles, now, today,
                   now_proximo, dia_de_flora, proximo_cambio, report, state,
                   sent>>

NextCiclo == analyze

SpecCiclo == InitCiclo /\ [][NextCiclo]_vars

\* the cycle analysis on lists of up to ParEvents events at any hours
InitPar ==
    /\ file \in ParFiles
    /\ mode = "onetime"
    /\ clock = 0
    /\ pc = "analyze"
    /\ exc = None
    /\ cycles = 0
    /\ Locals0

SpecPar == InitPar /\ [][NextCiclo]_vars

\* ------------------------------------------ the resolution on its own inputs
InitProximo ==
    /\ file \in ProximoFiles
    /\ mode = "onetime"
    /\ clock \in Clocks
    /\ pc = "resolve"
    /\ exc = None
    /\ cycles = 0
    /\ Locals0

\* one call of calcular_proximo_cambio(file)
resolve ==
    /\ pc = "resolve"
    /\ now_proximo' = clock
    /\ proximo_cambio' = calcular_proximo_cambio(file, clock)
    /\ pc' = "resolved"
    /\ UNCHANGED <<file, mode, clock, exc, ticks, cycles, now, today,
                   dia_de_flora, cambios, ciclo, report, state, sent>>

NextProximo == resolve

SpecProximo == InitProximo /\ [][NextProximo]_vars

\* ================================================================== claims
Instant(k) == event_datetime(file[k])

\* the instant that a result of calcular_proximo_cambio reports
ReportedInstant(r) ==
    r.fecha * MinutesPerDay + r.hora[1] * MinutesPerHour + r.hora[2]

\* C1: on a well-formed timeline with at least 2 events, a query at exactly
\* the instant of event i resolves event i's state as the current state, the
\* last event included.
C1_LeftEdgeInclusive ==
    (pc = "resolved" /\ StrictlyOrdered(file) /\ Len(file) >= 2) =>
        \A i \in 1..Len(file) :
            Instant(i) = now_proximo =>
                proximo_cambio.estado_actual = file[i].state

\* C2: on a non-empty timeline, a query at or after the last event's instant
\* resolves the last event's state as the current state.
C2_AtOrAfterLast ==
    (pc = "resolved" /\ Len(file) >= 1 /\ now_proximo >= Instant(Len(file))) =>
        proximo_cambio.estado_actual = file[Len(file)].state

\* the events strictly after the query whose state differs from the current
LaterDiffering ==
    {k \in 1..Len(file) :
        /\ Instant(k) > now_proximo
        /\ file[k].state # proximo_cambio.estado_actual}

\* C3: when a current state is resolved on an ordered timeline, the reported
\* next change is the earliest event strictly after the query whose state
\* differs from the current state, every event in between has the current
\* state, and the hours remaining are the distance from the query to the
\* reported instant, in hours, to the two decimals reported.
C3_NextChange ==
    (pc = "resolved" /\ IsOrdered(file) /\ proximo_cambio.estado_actual # None) =>
        LET r == proximo_cambio
            m == ReportedInstant(r) - now_proximo
        IN  IF LaterDiffering = {} THEN r.error
            ELSE /\ ~r.error
                 /\ \E k \in LaterDiffering :
                       /\ ReportedInstant(r) = Instant(k)
                       /\ r.estado = file[k].state
                       /\ \A j \in LaterDiffering : Instant(k) <= Instant(j)
                 /\ \A j \in 1..Len(file) :
                       (now_proximo < Instant(j) /\ Instant(j) < ReportedInstant(r))
                           => file[j].state = r.estado_actual
                 /\ 6 * r.faltan_horas - 10 * m <= 3
                 /\ 10 * m - 6 * r.faltan_horas <= 3

\* C3 witness: a next change is reported past a skipped event of the current
\* state, at a distance that is not a whole number of hours
C3_Witness ==
    /\ pc = "resolved"
    /\ ~proximo_cambio.error
    /\ \E j \in 1..Len(file) :
          /\ now_proximo < Instant(j)
          /\ Instant(j) < ReportedInstant(proximo_cambio)
          /\ file[j].state = proximo_cambio.estado_actual
    /\ (ReportedInstant(proximo_cambio) - now_proximo) % MinutesPerHour # 0

\* the index of the latest event whose instant is at or before t
LatestAtOrBefore(t) ==
    CHOOSE k \in 1..Len(file) :
        /\ Instant(k) <= t
        /\ \A j \in 1..Len(file) : Instant(j) <= t => j <= k

StatusOf(st) == IF st = "ON" THEN 1 ELSE 0

\* C4: a cycle whose query instant is at or after the first event hands the
\* device the state of the latest event at or before the query instant.
C4_CommandIsLatestState ==
    (pc \in {"sleep", "done"} /\ Len(file) >= 1 /\ now >= Instant(1)) =>
        sent = <<StatusOf(file[LatestAtOrBefore(now)].state)>>

\* C5: a cycle whose analysis found fewer than two transitions is not
\* aborted by that.
C5_InsufficientDataNotFatal ==
    (pc \in {"proximo", "command", "sleep", "done", "crashed"} /\ ~ciclo.ok) =>
        exc = None

\* calcular_proximo_cambio has returned in the current cycle
ProximoRan ==
    \/ pc \in {"command", "sleep", "done"}
    \/ pc = "crashed" /\ exc = "KeyError"

\* C6: a cycle in which the current state is resolved and no later event has
\* a different state is not aborted by that.
C6_NoUpcomingChangeNotFatal ==
    (ProximoRan /\ proximo_cambio.estado_actual # None /\ LaterDiffering = {}) =>
        exc = None

\* the events that change the state: those whose state differs from the
\* event before
TransitionSet(f) == {k \in 2..Len(f) : f[k].state # f[k - 1].state}

\* the n-th transition of f
Transition(f, n) ==
    CHOOSE k \in TransitionSet(f) :
        Cardinality({j \in TransitionSet(f) : j <= k}) = n

\* the state that the n-th transition leaves
PhaseState(f, n) == f[Transition(f, n) - 1].state

RECURSIVE SumOver(_, _)
SumOver(c, idx) ==
    IF idx = {} THEN 0
    ELSE LET n == CHOOSE x \in idx : TRUE
         IN  c[n] + SumOver(c, idx \ {n})

\* the truncated mean of the recorded lengths of the phases in state st
PhaseMean(st) ==
    LET idx == {n \in 1..Len(cambios) : PhaseState(file, n) = st}
    IN  IF idx = {} THEN 0 ELSE SumOver(cambios, idx) \div Cardinality(idx)

\* C7: on_hours is the truncated mean of the ON phases and off_hours that of
\* the OFF phases, whichever state the timeline starts in.
C7_BucketsByState ==
    (pc = "analyzed" /\ ciclo.ok) =>
        /\ ciclo.on = PhaseMean("ON")
        /\ ciclo.off = PhaseMean("OFF")

\* the hours of day at the two ends of the n-th recorded distance
PrevHour(f, n) ==
    DigitsToInt(f[IF n = 1 THEN 1 ELSE Transition(f, n - 1)].hour)

NextHour(f, n) == DigitsToInt(f[Transition(f, n)].hour)

\* C8: the distance recorded between two consecutive transitions at hours
\* prev and next in 0..23 is next - prev when next >= prev and
\* next + 24 - prev otherwise; it lies in 0..23, and 23 -> 1 records 2.
C8_HourWraparound ==
    pc = "analyzed" =>
        /\ Len(cambios) = Cardinality(TransitionSet(file))
        /\ \A n \in 1..Len(cambios) :
              LET prev == PrevHour(file, n)
                  next == NextHour(file, n)
              IN  (prev \in 0..23 /\ next \in 0..23) =>
                     /\ cambios[n] = IF next >= prev THEN next - prev
                                     ELSE next + 24 - prev
                     /\ cambios[n] \in 0..23
                     /\ (prev + cambios[n]) % 24 = next
                     /\ (prev = 23 /\ next = 1) => cambios[n] = 2

\* C8 witness: a transition at hour 23 followed by one at hour 1 has been
\* analysed
C8_Witness ==
    /\ pc = "analyzed"
    /\ \E n \in 1..Len(cambios) :
          /\ PrevHour(file, n) = 23
          /\ NextHour(file, n) = 1
          /\ cambios[n] = 2

\* C9: every time-dependent step of one cycle works from the same instant.
C9_SingleInstant ==
    pc \in {"sleep", "done"} => (today = now_proximo /\ now_proximo = now)

\* C10: in supercycle mode the loop is never left.
C10_LoopNeverStops ==
    mode = "supercycle" => pc # "crashed"

\* C12: on a non-empty ordered timeline, a query that precedes the first
\* event's instant fails: the result is an error with neither a current state
\* nor a next change.
C12_BeforeTimelineStart ==
    (pc = "resolved" /\ Len(file) >= 1 /\ IsOrdered(file)
        /\ now_proximo < Instant(1)) =>
        /\ proximo_cambio.error
        /\ proximo_cambio.estado_actual = None
        /\ proximo_cambio.estado = None

\* C12 witness: a timeline of several events has been queried ten minutes
\* before its first event
C12_Witness ==
    /\ pc = "resolved"
    /\ Len(file) >= 2
    /\ now_proximo = Instant(1) - 10
    /\ proximo_cambio.error

\* C13: for an empty timeline the summary does not fail: the cycle is not
\* aborted and the report gives flowering day 0 and flowering week 0.
C13_EmptyTimelineReport ==
    (pc \in {"sleep", "done", "crashed"} /\ Len(file) = 0) =>
        /\ exc = None
        /\ report.printed
        /\ report.dia = 0
        /\ report.week = 0

\* C15: the analysis fails exactly when the timeline has fewer than two
\* state transitions, and returns a pattern otherwise.
C15_InsufficientData ==
    pc = "analyzed" =>
        (ciclo.ok <=> Cardinality(TransitionSet(file)) >= 2)

\* C15 witness: a timeline with exactly one transition has been analysed and
\* refused
C15_Witness ==
    /\ pc = "analyzed"
    /\ Cardinality(TransitionSet(file)) = 1
    /\ ~ciclo.ok

\* calcular_dia_de_flora has returned in the current cycle
FloraRan == pc \in {"ciclo", "proximo", "command", "sleep", "done", "crashed"}

\* C16: flowering_day is the difference in calendar days between the date of
\* the query instant and the date of the first event, whatever the time of
\* day, also when the query date precedes the start date.
C16_FloweringDay ==
    (FloraRan /\ Len(file) >= 1) =>
        /\ dia_de_flora.ok
        /\ dia_de_flora.dias = strftime_date(today) - file[1].date

\* C16 witness: the flowering day has been computed at a time of day other
\* than midnight on a date before the start date
C16_Witness ==
    /\ FloraRan
    /\ Len(file) >= 1
    /\ strftime_date(today) < file[1].date
    /\ today % MinutesPerDay # 0
    /\ dia_de_flora.dias < 0

\* f with the event e inserted after its p-th event
InsertAfter(f, p, e) ==
    SubSeq(f, 1, p) \o <<e>> \o SubSeq(f, p + 1, Len(f))

\* the event at hour h that repeats the state of the p-th event of f
SameStateEvent(f, p, h) ==
    [date |-> 0, hour |-> strftime_H(h * MinutesPerHour), state |-> f[p].state]

\* C17: an event inserted with the state of the most recent transition, at
\* any hour, leaves the distances and the result of the analysis unchanged.
C17_SameStateEventIgnored ==
    pc = "analyzed" =>
        \A p \in 1..Len(file) : \A h \in CicloHours :
            LET g == InsertAfter(file, p, SameStateEvent(file, p, h))
            IN  /\ cambios_de(g) = cambios
                /\ calcular_ciclo_on_off(g) = ciclo

\* C17 witness: a timeline with a cycle pattern has been analysed, and an
\* event at another hour than its neighbours can be inserted into it
C17_Witness ==
    /\ pc = "analyzed"
    /\ ciclo.ok
    /\ \E p \in 1..(Len(file) - 1) : \E h \in CicloHours :
          /\ h # DigitsToInt(file[p].hour)
          /\ h # DigitsToInt(file[p + 1].hour)
          /\ calcular_ciclo_on_off(
                InsertAfter(file, p, SameStateEvent(file, p, h))) = ciclo

\* a record with its three fields, an hour that is a number in 0..23 and a
\* state that is ON or OFF
ValidRecord(e) ==
    /\ has(e, "date") /\ has(e, "hour") /\ has(e, "state")
    /\ int_ok(e.hour)
    /\ DigitsToInt(e.hour) \in 0..23
    /\ e.state \in {"ON", "OFF"}

\* C11: a cycle whose event list holds an invalid record issues no device
\* command.
C11_InvalidRecordNoCommand ==
    (pc \in {"sleep", "done", "crashed"}
        /\ \E k \in 1..Len(file) : ~ValidRecord(file[k])) =>
        sent = <<>>

\* the event list with every hour written with two digits
Normalize(f) == [k \in 1..Len(f) |-> [f[k] EXCEPT !.hour = zfill2(@)]]

\* calcular_ciclo_on_off has returned in the current cycle
CicloRan == pc \in {"proximo", "command", "sleep", "done", "crashed"}

\* C14 for the next-change resolution: the result is that of the list with
\* two-digit hours
C14_Resolution ==
    ProximoRan =>
        proximo_cambio = calcular_proximo_cambio(Normalize(file), now_proximo)

\* C14 for the cycle analysis: the result is that of the list with two-digit
\* hours
C14_Analysis ==
    CicloRan => ciclo = calcular_ciclo_on_off(Normalize(file))

\* C14 for the lookup: the state found is that found in the list with
\* two-digit hours
C14_Lookup ==
    pc \in {"sleep", "done"} =>
        state = config_get(read_configuration(Normalize(file)),
                           strftime_date(now), strftime_H(now))

\* C14: an hour written with one digit denotes the same instant as its
\* two-digit form in the next-change resolution, in the cycle analysis and in
\* the lookup of the state sent to the device.
C14_OneDigitHourSameInstant ==
    C14_Resolution /\ C14_Analysis /\ C14_Lookup

\* events i and i + 1 share an instant that no later event has, and carry
\* different states
SharedInstant(i) ==
    /\ Instant(i) = Instant(i + 1)
    /\ file[i].state # file[i + 1].state
    /\ \A j \in (i + 2)..Len(file) : Instant(j) > Instant(i)

\* C18 for the resolution: at a shared instant the current state is that of
\* the later event
C18_Resolution ==
    \A i \in 1..(Len(file) - 1) :
        (ProximoRan /\ SharedInstant(i) /\ now_proximo = Instant(i)) =>
            proximo_cambio.estado_actual = file[i + 1].state

\* C18 for the lookup: at a shared instant the state looked up is that of the
\* later event
C18_Lookup ==
    \A i \in 1..(Len(file) - 1) :
        (pc \in {"sleep", "done"} /\ SharedInstant(i) /\ now = Instant(i)) =>
            state = file[i + 1].state

\* C18: when two events share an instant and differ in state, the later one
\* in file order gives the state in force at that instant, for the resolution
\* and for the lookup.
C18_LaterEventWins == C18_Resolution /\ C18_Lookup

\* C19: a cycle posts at most one command; it posts 1 exactly when the state
\* looked up is ON and 0 exactly when it is OFF, and nothing when the lookup
\* gives no state or another value, or when the lookup is not reached.
C19_AtMostOneCommand ==
    /\ Len(sent) <= 1
    /\ pc \in {"sleep", "done"} =>
          \/ state = "ON" /\ sent = <<1>>
          \/ state = "OFF" /\ sent = <<0>>
          \/ state \notin {"ON", "OFF"} /\ sent = <<>>
    /\ pc \in {"flora", "ciclo", "proximo", "command", "crashed"} =>
          sent = <<>>

\* C19 witness: a cycle has ended whose lookup gave a state that is neither
\* ON nor OFF nor missing, and no command was posted
C19_Witness ==
    /\ pc \in {"sleep", "done"}
    /\ state \notin {"ON", "OFF", None}
    /\ sent = <<>>

====
